---- MODULE Spec2Model ----
(***************************************************************************)
(* Model of src/app.py: the in-memory lobby of a Flask-SocketIO server.    *)
(*                                                                         *)
(* State: the two module-level dictionaries `rooms` and `players`, the     *)
(* player dictionaries they share by reference (kept in `heap`, so that    *)
(* the aliasing between room.players and players[sid]['player'] is         *)
(* explicit), and the Socket.IO room membership maintained by join_room /  *)
(* leave_room.  Every handler runs to completion before the next event is  *)
(* taken, so one action is one whole handler.  `out` holds what the last   *)
(* handler emitted, in emission order.                                     *)
(*                                                                         *)
(* Two specifications share the actions:                                   *)
(*   Spec      a server on which one room is created, with up to           *)
(*             MaxRecords players in it;                                   *)
(*   SpecWide  WideRooms rooms, up to WideRecords players over all rooms.  *)
(***************************************************************************)
EXTENDS Integers, Sequences, FiniteSets, TLC

\* ------------------------------------------------------------------ bounds
NumConns == 2          \* Spec, SpecWide: connections that ever exist
TrioConns == 3         \* SpecTrio: connections that ever exist
MaxCap == 3            \* largest max_players sent to create_room
MaxRecords == 3        \* Spec: player dictionaries alive at once
WideRooms == 2         \* SpecWide: rooms ever created
WideRecords == 2       \* SpecWide: player dictionaries alive at once

\* Every request.sid that any of the specifications hands out.
Conns == 1..TrioConns

\* ------------------------------------------------------------ input values
\* Python's None, for the optional string inputs.
None == "None"
\* Python truthiness of an optional string: None and "" are both falsy.
Truthy(s) == s # None /\ s # ""

\* The bodies POSTed to /api/rooms: an empty name, the defaults
\* (max_players 2, no password, classic), a password-protected room of the
\* largest size, a room whose password is the empty string, and a room
\* whose max_players is not positive.
CreateRequests ==
    { [name |-> "", max_players |-> 2, password |-> None,
       game_mode |-> "classic"],
      [name |-> "Test", max_players |-> 2, password |-> None,
       game_mode |-> "classic"],
      [name |-> "Test", max_players |-> MaxCap, password |-> "pw",
       game_mode |-> "team"],
      [name |-> "Test", max_players |-> 1, password |-> "",
       game_mode |-> "ffa"],
      [name |-> "Test", max_players |-> 0, password |-> None,
       game_mode |-> "classic"] }

\* The password field of a join_room payload.
Passwords == {None, "", "pw"}

\* The player_name field of a join_room payload: the client on connection 1
\* sends a display name, the other clients leave the field out.
PlayerNameOf(sid) == IF sid = 1 THEN "Ann" ELSE None

\* The game_state of a room before start_game has run (Python None).
NoGameState == [turn |-> -1]

VARIABLES
    rooms,               \* rooms: room id -> Room
    players,             \* players: sid -> [room_id, player (a reference)]
    heap,                \* the player dictionaries, by reference
    sio_rooms,           \* Socket.IO rooms: room id -> set of member sids
    connected,           \* sids of the open connections
    closed,              \* sids of connections that were open and are gone
    sid_count,           \* number of sids handed out so far
    uuid_count,          \* number of uuid4 values drawn so far
    out                  \* emissions of the last handler, in order

vars == <<rooms, players, heap, sio_rooms, connected, closed, sid_count,
          uuid_count, out>>

\* ----------------------------------------------------------------- helpers
\* d[k] = v on a dictionary d (insert or overwrite).
DictSet(d, k, v) == [x \in DOMAIN d \cup {k} |-> IF x = k THEN v ELSE d[x]]
\* del d[k]
DictDel(d, k) == [x \in DOMAIN d \ {k} |-> d[x]]

RECURSIVE SelectSeqBy_Reversed(_, _)
\* Mutant of SelectSeqBy: the kept elements come out in reverse order.
SelectSeqBy_Reversed(s, Keep) ==
    IF s = <<>> THEN <<>>
    ELSE IF Keep[Head(s)]
         THEN SelectSeqBy_Reversed(Tail(s), Keep) \o <<Head(s)>>
         ELSE SelectSeqBy_Reversed(Tail(s), Keep)

RECURSIVE SelectSeqBy(_, _)
\* [p for p in s if Keep[p]]
SelectSeqBy(s, Keep) ==
    IF s = <<>> THEN <<>>
    ELSE IF Keep[Head(s)] THEN <<Head(s)>> \o SelectSeqBy(Tail(s), Keep)
         ELSE SelectSeqBy(Tail(s), Keep)

Range(s) == {s[i] : i \in 1..Len(s)}

\* A reference no live object has: the new dict of the literal on line 98.
NewRef(h) == Cardinality(DOMAIN h) + 1

RECURSIVE RefsFrom(_, _)
\* The references held by the lists of rooms r, r+1, ..., in list order.
RefsFrom(rs, r) ==
    IF \A q \in DOMAIN rs : q < r THEN <<>>
    ELSE (IF r \in DOMAIN rs THEN rs[r].players ELSE <<>>)
             \o RefsFrom(rs, r + 1)

RECURSIVE RegistryRefsFrom(_, _, _)
\* The references held only by the registry entries of sids c, c+1, ...
RegistryRefsFrom(ps, seen, c) ==
    IF c > TrioConns THEN <<>>
    ELSE IF c \in DOMAIN ps /\ ps[c].player \notin seen
         THEN <<ps[c].player>>
                  \o RegistryRefsFrom(ps, seen \cup {ps[c].player}, c + 1)
         ELSE RegistryRefsFrom(ps, seen, c + 1)

\* References still held by a room's list or by the registry.
LiveRefs(rs, ps) ==
    RefsFrom(rs, 1) \o RegistryRefsFrom(ps, Range(RefsFrom(rs, 1)), 1)

\* Python frees a dictionary that nothing refers to any more, and the
\* identity of a dictionary is not observable: the live dictionaries are
\* renumbered 1..n in the order LiveRefs lists them, which keeps every
\* reference pointing at the dictionary it pointed at before.
Collect(rs, ps, h) ==
    LET live == LiveRefs(rs, ps)
        NewName(o) == CHOOSE i \in 1..Len(live) : live[i] = o
    IN [rooms |-> [r \in DOMAIN rs |->
                      [rs[r] EXCEPT !.players =
                          [i \in 1..Len(@) |-> NewName(@[i])]]],
        players |-> [c \in DOMAIN ps |->
                        [ps[c] EXCEPT !.player = NewName(@)]],
        heap |-> [i \in 1..Len(live) |-> h[live[i]]]]

\* The sids in Socket.IO room r.
Members(sio, r) == IF r \in DOMAIN sio THEN sio[r] ELSE {}

\* Mutant of SioEnter: the call to join_room(r) is missing.
SioEnter_Forgotten(sio, r, sid) == sio

\* flask_socketio.join_room(r) for connection sid
SioEnter(sio, r, sid) == DictSet(sio, r, Members(sio, r) \cup {sid})

\* flask_socketio.leave_room(r) for connection sid; Socket.IO drops a room
\* that has no member left.
SioLeave(sio, r, sid) ==
    IF Members(sio, r) \ {sid} = {} THEN DictDel(sio, r)
    ELSE DictSet(sio, r, Members(sio, r) \ {sid})

\* f"玩家-{request.sid[:4]}"
DefaultName(sid) == "player-" \o ToString(sid)

\* An emission: event name, payload, and the sids it is delivered to.
Emit(event, data, to) == [event |-> event, data |-> data, to |-> to]

\* Room(name, max_players, password, game_mode)
Room(id, name, max_players, password, game_mode) ==
    [id |-> id, name |-> name, max_players |-> max_players,
     password |-> password, game_mode |-> game_mode,
     players |-> <<>>, status |-> "waiting", game_state |-> NoGameState]

get_room_info(room) ==
    [id |-> room.id, name |-> room.name, game_mode |-> room.game_mode,
     current_players |-> Len(room.players),
     max_players |-> room.max_players, status |-> room.status]

\* Mutant of initialize_game_board: the mode is ignored.
initialize_game_board_Classic(game_mode) ==
    [type |-> "classic", state |-> "initial"]

initialize_game_board(game_mode) ==
    IF game_mode = "classic" THEN [type |-> "classic", state |-> "initial"]
    ELSE IF game_mode = "team" THEN [type |-> "team", state |-> "initial"]
    ELSE [type |-> "custom", state |-> "initial"]

\* ------------------------------------------------------------------- Init
Init ==
    /\ rooms = <<>>
    /\ players = <<>>
    /\ heap = <<>>
    /\ sio_rooms = <<>>
    /\ connected = {}
    /\ closed = {}
    /\ sid_count = 0
    /\ uuid_count = 0
    /\ out = <<>>

\* ---------------------------------------------------------------- actions
\* POST /api/rooms
create_room(name, max_players, password, game_mode) ==
    IF ~Truthy(name)
    THEN /\ out' = <<Emit("http_400", [error |-> "name_empty"], {})>>
         /\ UNCHANGED <<rooms, players, heap, sio_rooms, connected, closed,
                        sid_count, uuid_count>>
    ELSE LET id == uuid_count + 1
             room == Room(id, name, max_players, password, game_mode)
         IN /\ rooms' = DictSet(rooms, id, room)
            /\ uuid_count' = id
            /\ out' = <<Emit("http_200",
                             [room_id |-> id, name |-> room.name,
                              max_players |-> room.max_players,
                              has_password |-> room.password # None],
                             {})>>
            /\ UNCHANGED <<players, heap, sio_rooms, connected, closed,
                           sid_count>>

\* 'connect': a new connection gets a sid of its own.
handle_connect(sid) ==
    /\ sid = sid_count + 1
    /\ sid_count' = sid
    /\ connected' = connected \cup {sid}
    /\ out' = <<>>
    /\ UNCHANGED <<rooms, players, heap, sio_rooms, closed, uuid_count>>

\* The connection is lost.  app.py registers no 'disconnect' handler, so
\* only Socket.IO's own bookkeeping changes: the sid leaves every room.
disconnect(sid) ==
    /\ sid \in connected
    /\ connected' = connected \ {sid}
    /\ closed' = closed \cup {sid}
    /\ sio_rooms' = [r \in {q \in DOMAIN sio_rooms : sio_rooms[q] # {sid}}
                        |-> sio_rooms[r] \ {sid}]
    /\ out' = <<>>
    /\ UNCHANGED <<rooms, players, heap, sid_count, uuid_count>>

\* The check on line 87: the room has a password and the one sent differs.
PasswordMismatch(room, password) ==
    Truthy(room.password) /\ room.password # password

\* Mutant of RoomIsFull: the comparison is off by one.
RoomIsFull_OffByOne(room) == Len(room.players) > room.max_players

\* Mutant of RoomIsFull: the capacity check is missing.
RoomIsFull_Unchecked(room) == FALSE

\* Mutant of RoomIsFull: a room whose game has started takes nobody.
RoomIsFull_OrPlaying(room) ==
    Len(room.players) >= room.max_players \/ room.status = "playing"

\* The check on line 92.
RoomIsFull(room) == Len(room.players) >= room.max_players

\* The three checks of handle_join_room all pass (lines 80, 87 and 92).
JoinAccepted(room_id, password) ==
    /\ room_id \in DOMAIN rooms
    /\ ~PasswordMismatch(rooms[room_id], password)
    /\ ~RoomIsFull(rooms[room_id])

\* Mutant of JoinRejected: the error goes to every connection.
JoinRejected_Broadcast(sid, message) ==
    /\ out' = <<Emit("error", [message |-> message], Conns)>>
    /\ UNCHANGED <<rooms, players, heap, sio_rooms>>

\* emit('error', {'message': ...}); return
JoinRejected(sid, message) ==
    /\ out' = <<Emit("error", [message |-> message], {sid})>>
    /\ UNCHANGED <<rooms, players, heap, sio_rooms>>

\* Lines 96-116: the caller enters the Socket.IO room, a new player
\* dictionary is appended to the room and bound in the registry, then
\* player_joined goes to the room and room_joined to the caller.
JoinRoom(sid, room_id, player_name) ==
    LET room == rooms[room_id]
        sio1 == SioEnter(sio_rooms, room_id, sid)
        ref == NewRef(heap)
        player == [id |-> sid,
                   name |-> IF player_name = None THEN DefaultName(sid)
                            ELSE player_name,
                   ready |-> FALSE]
        heap1 == DictSet(heap, ref, player)
        room1 == [room EXCEPT !.players = Append(@, ref)]
        mem == Collect([rooms EXCEPT ![room_id] = room1],
                       DictSet(players, sid,
                               [room_id |-> room_id, player |-> ref]),
                       heap1)
    IN /\ sio_rooms' = sio1
       /\ heap' = mem.heap
       /\ rooms' = mem.rooms
       /\ players' = mem.players
       /\ out' = <<Emit("player_joined",
                        [player |-> player,
                         room_info |-> get_room_info(room1)],
                        Members(sio1, room_id)),
                   Emit("room_joined",
                        [room |-> get_room_info(room1),
                         players |-> [i \in 1..Len(room1.players) |->
                                         heap1[room1.players[i]]]],
                        {sid})>>

\* 'join_room'
handle_join_room(sid, room_id, player_name, password) ==
    /\ sid \in connected
    /\ IF room_id \notin DOMAIN rooms
       THEN JoinRejected(sid, "room_not_found")
       ELSE IF PasswordMismatch(rooms[room_id], password)
       THEN JoinRejected(sid, "wrong_password")
       ELSE IF RoomIsFull(rooms[room_id])
       THEN JoinRejected(sid, "room_full")
       ELSE JoinRoom(sid, room_id, player_name)
    /\ UNCHANGED <<connected, closed, sid_count, uuid_count>>

\* Mutant of Unbind: the registry entry is left behind.
Unbind_Forgotten(ps, sid) == ps

\* del players[request.sid]
Unbind(ps, sid) == DictDel(ps, sid)

\* Mutant of RemoveIfEmpty: the emptied room stays in the store.
RemoveIfEmpty_Never(rs, room_id, room1) == [rs EXCEPT ![room_id] = room1]

\* Lines 132 and 144-145: the room with its filtered player list, deleted
\* from the store when that list is empty.
RemoveIfEmpty(rs, room_id, room1) ==
    IF Len(room1.players) = 0 THEN DictDel(rs, room_id)
    ELSE [rs EXCEPT ![room_id] = room1]

\* 'leave_room'
handle_leave_room(sid) ==
    /\ sid \in connected
    /\ IF sid \notin DOMAIN players
       THEN /\ out' = <<>>
            /\ UNCHANGED <<rooms, players, heap, sio_rooms>>
       ELSE LET room_id == players[sid].room_id IN
            IF room_id \notin DOMAIN rooms
            THEN /\ out' = <<>>
                 /\ UNCHANGED <<rooms, players, heap, sio_rooms>>
            ELSE LET room == rooms[room_id]
                     Keep == [p \in DOMAIN heap |-> heap[p].id # sid]
                     room1 == [room EXCEPT
                                  !.players = SelectSeqBy(@, Keep)]
                     sio1 == SioLeave(sio_rooms, room_id, sid)
                     players1 == Unbind(players, sid)
                     rooms1 == RemoveIfEmpty(rooms, room_id, room1)
                     mem == Collect(rooms1, players1, heap)
                 IN /\ sio_rooms' = sio1
                    /\ players' = mem.players
                    /\ rooms' = mem.rooms
                    /\ heap' = mem.heap
                    /\ out' = <<Emit("player_left",
                                     [player_id |-> sid,
                                      room_info |-> get_room_info(room1)],
                                     Members(sio1, room_id))>>
    /\ UNCHANGED <<connected, closed, sid_count, uuid_count>>

\* Mutant of start_game: the status is left as it was.
start_game_KeepsStatus(room, h) ==
    [room EXCEPT !.game_state =
                     [turn |-> 0,
                      current_player |-> h[room.players[1]].id,
                      board |-> initialize_game_board(room.game_mode)]]

\* Mutant of start_game: the game is over as soon as it has started.
start_game_Ended(room, h) ==
    [room EXCEPT !.status = "ended",
                 !.game_state =
                     [turn |-> 0,
                      current_player |-> h[room.players[1]].id,
                      board |-> initialize_game_board(room.game_mode)]]

\* start_game(room_id), as called from handle_toggle_ready: the room after
\* the call, given the room and the heap before it.
start_game(room, h) ==
    [room EXCEPT !.status = "playing",
                 !.game_state =
                     [turn |-> 0,
                      current_player |-> h[room.players[1]].id,
                      board |-> initialize_game_board(room.game_mode)]]

\* Mutant of AllReady: the minimum of two players is missing.
AllReady_NoMinimum(room, h) ==
    \A i \in 1..Len(room.players) : h[room.players[i]].ready

\* Mutant of AllReady: the game needs three players.
AllReady_MinimumThree(room, h) ==
    /\ \A i \in 1..Len(room.players) : h[room.players[i]].ready
    /\ Len(room.players) >= 3

\* The condition on line 171.
AllReady(room, h) ==
    /\ \A i \in 1..Len(room.players) : h[room.players[i]].ready
    /\ Len(room.players) >= 2

\* Mutant of ToggleReady: the flag is set instead of flipped.
ToggleReady_AlwaysReady(h, ref) == [h EXCEPT ![ref].ready = TRUE]

\* player['ready'] = not player['ready'] on the dictionary that ref names.
ToggleReady(h, ref) == [h EXCEPT ![ref].ready = ~@]

\* 'toggle_ready'
handle_toggle_ready(sid) ==
    /\ sid \in connected
    /\ IF sid \notin DOMAIN players
       THEN /\ out' = <<>>
            /\ UNCHANGED <<rooms, heap>>
       ELSE LET room_id == players[sid].room_id
                ref == players[sid].player
            IN
            IF room_id \notin DOMAIN rooms
            THEN /\ out' = <<>>
                 /\ UNCHANGED <<rooms, heap>>
            ELSE LET room == rooms[room_id]
                     heap1 == ToggleReady(heap, ref)
                     ready_msg ==
                         Emit("player_ready",
                              [player_id |-> sid,
                               is_ready |-> heap1[ref].ready,
                               room_info |-> get_room_info(room)],
                              Members(sio_rooms, room_id))
                 IN /\ heap' = heap1
                    /\ IF AllReady(room, heap1)
                       THEN LET room1 == start_game(room, heap1) IN
                            /\ rooms' = [rooms EXCEPT ![room_id] = room1]
                            /\ out' = <<ready_msg,
                                        Emit("game_started",
                                             [game_state |->
                                                  room1.game_state],
                                             Members(sio_rooms, room_id))>>
                       ELSE /\ out' = <<ready_msg>>
                            /\ rooms' = rooms
    /\ UNCHANGED <<players, sio_rooms, connected, closed, sid_count,
                   uuid_count>>

\* ------------------------------------------------------------------- Next
\* The events that can arrive when at most nconns connections are ever
\* opened, nrooms rooms are ever stored and nrecords player dictionaries are
\* alive at once.
NextOf(nconns, nrooms, nrecords) ==
    \/ \E req \in CreateRequests :
           /\ Truthy(req.name) => uuid_count < nrooms
           /\ create_room(req.name, req.max_players, req.password,
                          req.game_mode)
    \/ \E sid \in 1..nconns : handle_connect(sid)
    \/ \E sid \in Conns : disconnect(sid)
    \/ \E sid \in Conns, room_id \in 1..nrooms, password \in Passwords :
           /\ JoinAccepted(room_id, password)
                  => Cardinality(DOMAIN heap) < nrecords
           /\ handle_join_room(sid, room_id, PlayerNameOf(sid), password)
    \/ \E sid \in Conns : handle_leave_room(sid)
    \/ \E sid \in Conns : handle_toggle_ready(sid)

\* The events of a server that draws at most nrooms room ids and holds at
\* most nrecords player dictionaries at a time, with NumConns connections.
NextFor(nrooms, nrecords) == NextOf(NumConns, nrooms, nrecords)

Next == NextFor(1, MaxRecords)

Spec == Init /\ [][Next]_vars

\* Spec on a server that never stops handling the events that can still
\* arrive: every handler runs to completion and the next event is taken.
SpecFair == Spec /\ WF_vars(Next)

NextWide == NextFor(WideRooms, WideRecords)

SpecWide == Init /\ [][NextWide]_vars

\* One room and three connections: a third player can come and go.
NextTrio == NextOf(TrioConns, 1, MaxRecords)

SpecTrio == Init /\ [][NextTrio]_vars

\* ----------------------------------------------------------------- claims
\* The rooms in whose player list sid appears.
RoomsHolding(sid) ==
    {r \in DOMAIN rooms : \E i \in 1..Len(rooms[r].players) :
                              heap[rooms[r].players[i]].id = sid}

\* The positions in an emission sequence that carry the given event name.
EventsIn(o, event) == {i \in 1..Len(o) : o[i].event = event}

\* The player dictionaries of room r, in list order.
PlayersOf(rs, h, r) == [i \in 1..Len(rs[r].players) |-> h[rs[r].players[i]]]

\* The last handler sent exactly one event: the given error, to sid only.
OnlyErrorTo(o, sid, message) ==
    o = <<[event |-> "error", data |-> [message |-> message], to |-> {sid}]>>

\* C1: a room created with a positive max_players never holds more than
\* max_players players.
C1_CapacityRespected ==
    \A r \in DOMAIN rooms :
        rooms[r].max_players > 0
            => Len(rooms[r].players) <= rooms[r].max_players

\* C1 witness: a join has just been turned away from a room that holds
\* exactly max_players >= 2 players.
C1_Witness ==
    \E r \in DOMAIN rooms :
        /\ rooms[r].max_players >= 2
        /\ Len(rooms[r].players) = rooms[r].max_players
        /\ Len(out) = 1
        /\ out[1].event = "error"
        /\ out[1].data.message = "room_full"

\* C2 (as claimed): a sid is a key of the registry iff it appears as a
\* player in exactly one room's player list.
C2_BoundIffInOneRoom ==
    \A sid \in Conns :
        sid \in DOMAIN players <=> Cardinality(RoomsHolding(sid)) = 1

\* C3 (as claimed): once a room is playing, a toggle_ready of one of its
\* members emits no game_started and leaves the room's game_state alone.
C3_NoRestartOncePlaying ==
    [][\A sid \in DOMAIN players :
          LET r == players[sid].room_id IN
          (/\ r \in DOMAIN rooms
           /\ rooms[r].status = "playing"
           /\ handle_toggle_ready(sid))
              => /\ EventsIn(out', "game_started") = {}
                 /\ rooms'[r].game_state = rooms[r].game_state]_vars

\* C4 (as claimed): a join_room to a room that has a password (as
\* create_room and list_rooms report it: password is not None), carrying a
\* different password, is answered with an error to the caller and changes
\* neither the room's player list, nor the registry, nor any room's status.
C4_WrongPasswordRejected ==
    [][\A sid \in Conns, r \in DOMAIN rooms, pw \in Passwords :
          (/\ rooms[r].password # None
           /\ rooms[r].password # pw
           /\ handle_join_room(sid, r, PlayerNameOf(sid), pw))
              => /\ OnlyErrorTo(out', sid, "wrong_password")
                 /\ rooms'[r].players = rooms[r].players
                 /\ players' = players
                 /\ \A q \in DOMAIN rooms :
                        rooms'[q].status = rooms[q].status]_vars

\* C5: a join_room naming a room id that is not in the store is answered
\* with the room-not-found error to the caller only, and rooms, registry
\* and player dictionaries stay as they were.
C5_UnknownRoomRejected ==
    [][\A sid \in Conns, r \in 1..WideRooms, pw \in Passwords :
          (/\ r \notin DOMAIN rooms
           /\ handle_join_room(sid, r, PlayerNameOf(sid), pw))
              => /\ OnlyErrorTo(out', sid, "room_not_found")
                 /\ rooms' = rooms
                 /\ players' = players
                 /\ heap' = heap]_vars

\* C5 witness: some connection has just been told that the room does not
\* exist.
C5_Witness ==
    \E sid \in connected : OnlyErrorTo(out, sid, "room_not_found")

\* C6: a join_room carrying the room's own password (None for a room
\* without one) to a room that holds exactly max_players players is
\* answered with the room-full error to the caller only, and the room's
\* player list and the registry stay as they were.
C6_FullRoomRejected ==
    [][\A sid \in Conns, r \in DOMAIN rooms, pw \in Passwords :
          (/\ pw = rooms[r].password
           /\ Len(rooms[r].players) = rooms[r].max_players
           /\ handle_join_room(sid, r, PlayerNameOf(sid), pw))
              => /\ OnlyErrorTo(out', sid, "room_full")
                 /\ r \in DOMAIN rooms'
                 /\ PlayersOf(rooms', heap', r) = PlayersOf(rooms, heap, r)
                 /\ players' = players]_vars

\* C6 witness: a password-protected room is full and a join (which must
\* have carried the right password) has just been answered with room-full.
C6_Witness ==
    \E sid \in connected, r \in DOMAIN rooms :
        /\ rooms[r].password = "pw"
        /\ rooms[r].max_players > 0
        /\ Len(rooms[r].players) = rooms[r].max_players
        /\ OnlyErrorTo(out, sid, "room_full")

\* C7: after a leave_room by a bound connection, the room is gone from the
\* store if no other player remains in it, and otherwise it is still in
\* the store holding the other players in their previous order.
C7_LeaveKeepsOrderOrDeletes ==
    [][\A sid \in DOMAIN players :
          LET r == players[sid].room_id IN
          (r \in DOMAIN rooms /\ handle_leave_room(sid))
              => LET remaining ==
                         SelectSeq(PlayersOf(rooms, heap, r),
                                   LAMBDA p : p.id # sid)
                 IN IF remaining = <<>>
                    THEN r \notin DOMAIN rooms'
                    ELSE /\ r \in DOMAIN rooms'
                         /\ PlayersOf(rooms', heap', r) = remaining]_vars

\* C7 witness: a player has just left a room in which two players, one
\* ready and one not, remain.
C7_Witness ==
    \E r \in DOMAIN rooms :
        /\ Len(out) = 1
        /\ out[1].event = "player_left"
        /\ out[1].data.room_info.id = r
        /\ Len(rooms[r].players) = 2
        /\ heap[rooms[r].players[1]].ready # heap[rooms[r].players[2]].ready

\* C8: a toggle_ready in a room of fewer than two players changes neither
\* the room's status nor its game_state and emits no game_started.
C8_NoStartBelowTwo ==
    [][\A sid \in DOMAIN players :
          LET r == players[sid].room_id IN
          (/\ r \in DOMAIN rooms
           /\ Len(rooms[r].players) < 2
           /\ handle_toggle_ready(sid))
              => /\ rooms'[r].status = rooms[r].status
                 /\ rooms'[r].game_state = rooms[r].game_state
                 /\ EventsIn(out', "game_started") = {}]_vars

\* C8 witness: the only player of a waiting room has just become ready.
C8_Witness ==
    \E r \in DOMAIN rooms :
        /\ Len(rooms[r].players) = 1
        /\ heap[rooms[r].players[1]].ready
        /\ rooms[r].status = "waiting"
        /\ Len(out) = 1
        /\ out[1].event = "player_ready"
        /\ out[1].data.room_info.id = r
        /\ out[1].data.is_ready

\* The placeholder board that belongs to a game mode.
PlaceholderFor(game_mode) ==
    [type |-> IF game_mode \in {"classic", "team"} THEN game_mode
              ELSE "custom",
     state |-> "initial"]

\* Room r holds at least two players and all of them are ready.
EveryoneReady(rs, h, r) ==
    /\ Len(rs[r].players) >= 2
    /\ \A i \in 1..Len(rs[r].players) : h[rs[r].players[i]].ready

\* C9: a toggle_ready that leaves a waiting room with at least two players,
\* all ready, makes the room playing, gives it a game_state whose board is
\* the placeholder of the room's mode and emits exactly one game_started;
\* and no step emits game_started unless it leaves some playing room with
\* at least two players, all ready (so the run create, join, join, toggle,
\* toggle emits exactly one).
C9_StartOnAllReady ==
    [][/\ \A sid \in DOMAIN players :
              LET r == players[sid].room_id IN
              (/\ r \in DOMAIN rooms
               /\ rooms[r].status = "waiting"
               /\ handle_toggle_ready(sid)
               /\ EveryoneReady(rooms', heap', r))
                  => /\ rooms'[r].status = "playing"
                     /\ DOMAIN rooms'[r].game_state
                            = {"turn", "current_player", "board"}
                     /\ rooms'[r].game_state.board
                            = PlaceholderFor(rooms[r].game_mode)
                     /\ Cardinality(EventsIn(out', "game_started")) = 1
       /\ EventsIn(out', "game_started") # {}
              => /\ Cardinality(EventsIn(out', "game_started")) = 1
                 /\ \E r \in DOMAIN rooms' :
                        /\ rooms'[r].status = "playing"
                        /\ EveryoneReady(rooms', heap', r)]_vars

\* C9 witness: in a room created with max_players = 2, two
\* different connections are both ready and the second toggle has just
\* taken the room from waiting to playing.
C9_Witness ==
    \E r \in DOMAIN rooms :
        /\ rooms[r].max_players = 2
        /\ rooms[r].status = "playing"
        /\ EveryoneReady(rooms, heap, r)
        /\ heap[rooms[r].players[1]].id # heap[rooms[r].players[2]].id
        /\ Len(out) = 2
        /\ out[1].event = "player_ready"
        /\ out[1].data.room_info.status = "waiting"
        /\ out[2].event = "game_started"
        /\ out[2].data.game_state = rooms[r].game_state

\* C10: a room has a game_state iff its status is playing or ended.
C10_GameStateIffStarted ==
    \A r \in DOMAIN rooms :
        rooms[r].game_state # NoGameState
            <=> rooms[r].status \in {"playing", "ended"}

\* C10 witness: a playing room with its game_state, and a player in it who
\* is no longer ready.
C10_Witness ==
    \E r \in DOMAIN rooms :
        /\ rooms[r].status = "playing"
        /\ rooms[r].game_state # NoGameState
        /\ rooms[r].game_state.turn = 0
        /\ \E i \in 1..Len(rooms[r].players) :
               ~heap[rooms[r].players[i]].ready

\* C11 (as claimed): no room in the store has an empty player list.
C11_NoEmptyRoom ==
    \A r \in DOMAIN rooms : Len(rooms[r].players) > 0

\* C11 (amended): a room in the store never goes from holding players to
\* holding none; a room with an empty player list is one that has been
\* created and not joined yet.
C11_NoRoomIsEmptied ==
    [][\A r \in DOMAIN rooms :
          (Len(rooms[r].players) > 0 /\ r \in DOMAIN rooms')
              => Len(rooms'[r].players) > 0]_vars

\* C11 witness: the last player of a room has just left it and the room is
\* gone from the store.
C11_Witness ==
    /\ Len(out) = 1
    /\ out[1].event = "player_left"
    /\ out[1].data.room_info.current_players = 0
    /\ out[1].data.room_info.id \notin DOMAIN rooms

\* C12: for every sid bound in the registry, the registry's room_id is in
\* the store, and the player dictionary the registry refers to is one of
\* those in that room's list and carries the sid.
C12_RegistryConsistent ==
    \A sid \in DOMAIN players :
        /\ players[sid].room_id \in DOMAIN rooms
        /\ \E i \in 1..Len(rooms[players[sid].room_id].players) :
               /\ rooms[players[sid].room_id].players[i]
                      = players[sid].player
               /\ heap[players[sid].player].id = sid

\* C12 witness: a connection that joined one room and then another is
\* bound to the second while both rooms list it.
C12_Witness ==
    \E sid \in DOMAIN players :
        /\ Cardinality(RoomsHolding(sid)) = 2
        /\ players[sid].room_id = 2

\* C13 (as claimed): once a connection is lost, eventually its sid is in no
\* room's player list and not in the registry, on a server that goes on
\* handling events for ever.
C13_LostConnectionCleaned ==
    ([]<><<Next>>_vars)
        => \A sid \in Conns :
               (sid \in closed)
                   ~> (sid \notin DOMAIN players /\ RoomsHolding(sid) = {})

\* The sids carried by the player dictionaries of room r.
HoldersOf(rs, h, r) == {h[rs[r].players[i]].id : i \in 1..Len(rs[r].players)}

\* C14 (as claimed): on a successful join_room, player_joined goes to
\* exactly the open connections that were in the room before and not to
\* the joining one, and room_joined goes to the joining connection only.
C14_JoinedNotToJoiner ==
    [][\A sid \in Conns, r \in DOMAIN rooms, pw \in Passwords :
          (/\ handle_join_room(sid, r, PlayerNameOf(sid), pw)
           /\ EventsIn(out', "player_joined") # {})
              => /\ Len(out') = 2
                 /\ out'[1].event = "player_joined"
                 /\ out'[1].to
                        = (HoldersOf(rooms, heap, r) \cap connected) \ {sid}
                 /\ out'[2].event = "room_joined"
                 /\ out'[2].to = {sid}]_vars

\* C14 (amended): on a successful join_room, player_joined goes to exactly
\* the open connections that are in the room after the join, the joining
\* one included, and room_joined goes to the joining connection only.
C14_JoinedToRoomWithJoiner ==
    [][\A sid \in Conns, r \in DOMAIN rooms, pw \in Passwords :
          (/\ handle_join_room(sid, r, PlayerNameOf(sid), pw)
           /\ EventsIn(out', "player_joined") # {})
              => /\ Len(out') = 2
                 /\ out'[1].event = "player_joined"
                 /\ out'[1].to = HoldersOf(rooms', heap', r) \cap connected
                 /\ sid \in out'[1].to
                 /\ out'[2].event = "room_joined"
                 /\ out'[2].to = {sid}]_vars

\* C14 witness: a connection has just joined a room that another open
\* connection was in, and player_joined went to both.
C14_Witness ==
    /\ Len(out) = 2
    /\ out[1].event = "player_joined"
    /\ Cardinality(out[1].to) = 2
    /\ out[1].data.player.id \in out[1].to
    /\ out[2].event = "room_joined"
    /\ out[2].to = {out[1].data.player.id}

\* C15: no room's player list holds two records with the same connection
\* id, also after a connection that is in a room joins that room again.
C15_OneRecordPerConnection ==
    \A r \in DOMAIN rooms :
        \A i, j \in 1..Len(rooms[r].players) :
            heap[rooms[r].players[i]].id = heap[rooms[r].players[j]].id
                => i = j

\* C16: every room's status is waiting or playing, never ended, and the
\* only change of a room's status that a step makes is waiting -> playing.
C16_StatusOnlyWaitingToPlaying ==
    [][\A r \in DOMAIN rooms' :
          /\ rooms'[r].status \in {"waiting", "playing"}
          /\ (r \in DOMAIN rooms /\ rooms'[r].status # rooms[r].status)
                 => /\ rooms[r].status = "waiting"
                    /\ rooms'[r].status = "playing"]_vars

\* C16 witness: the team room, with two connections in it, has just gone
\* from waiting to playing.
C16_Witness ==
    \E r \in DOMAIN rooms :
        /\ rooms[r].game_mode = "team"
        /\ Cardinality(HoldersOf(rooms, heap, r)) = 2
        /\ Len(rooms[r].players) = 2
        /\ rooms[r].status = "playing"
        /\ Len(out) = 2
        /\ out[1].event = "player_ready"
        /\ out[1].data.room_info.id = r
        /\ out[1].data.room_info.status = "waiting"
        /\ out[2].event = "game_started"

\* The player dictionaries of room r that a leave_room of sid keeps: all of
\* them unless sid is bound to r, else those whose id is not sid.
KeptBy(sid, r) ==
    IF sid \in DOMAIN players /\ players[sid].room_id = r
    THEN SelectSeq(PlayersOf(rooms, heap, r), LAMBDA p : p.id # sid)
    ELSE PlayersOf(rooms, heap, r)

\* C17: a player record is created with ready = FALSE and its flag changes
\* only in a toggle_ready of the connection whose id it carries: a
\* join_room keeps every record there was and adds at most one, not ready;
\* a leave_room keeps every record it does not remove; a toggle_ready of a
\* bound connection flips the flag of exactly one record, which carries
\* that connection's id, and one of an unbound connection changes none; a
\* step that emits none of player_joined, player_left and player_ready
\* touches no record.
C17_ReadyOwnedByToggler ==
    [][/\ \A sid \in Conns, r \in DOMAIN rooms, pw \in Passwords :
              handle_join_room(sid, r, PlayerNameOf(sid), pw)
                  => \A q \in DOMAIN rooms :
                         \/ PlayersOf(rooms', heap', q)
                                = PlayersOf(rooms, heap, q)
                         \/ /\ q = r
                            /\ \E name \in {PlayerNameOf(sid),
                                            DefaultName(sid)} :
                                   PlayersOf(rooms', heap', q)
                                       = Append(PlayersOf(rooms, heap, q),
                                                [id |-> sid, name |-> name,
                                                 ready |-> FALSE])
       /\ \A sid \in Conns :
              handle_leave_room(sid)
                  => \A q \in DOMAIN rooms' :
                         PlayersOf(rooms', heap', q) = KeptBy(sid, q)
       /\ \A sid \in Conns :
              handle_toggle_ready(sid)
                  => /\ DOMAIN heap' = DOMAIN heap
                     /\ \A r \in DOMAIN rooms :
                            rooms'[r].players = rooms[r].players
                     /\ IF sid \in DOMAIN players
                        THEN \E ref \in DOMAIN heap :
                                 /\ heap[ref].id = sid
                                 /\ heap'[ref]
                                        = [heap[ref] EXCEPT
                                               !.ready = ~heap[ref].ready]
                                 /\ \A o \in DOMAIN heap \ {ref} :
                                        heap'[o] = heap[o]
                        ELSE heap' = heap
       /\ (/\ EventsIn(out', "player_joined") = {}
           /\ EventsIn(out', "player_left") = {}
           /\ EventsIn(out', "player_ready") = {})
              => /\ heap' = heap
                 /\ \A r \in DOMAIN rooms :
                        rooms'[r].players = rooms[r].players
      ]_vars

\* C17 witness: a connection has just taken its ready flag back in a room
\* where the record of another connection stays ready.
C17_Witness ==
    /\ Len(out) = 1
    /\ out[1].event = "player_ready"
    /\ ~out[1].data.is_ready
    /\ \E i, j \in 1..Len(rooms[out[1].data.room_info.id].players) :
           LET p == PlayersOf(rooms, heap, out[1].data.room_info.id) IN
           /\ p[i].id = out[1].data.player_id
           /\ ~p[i].ready
           /\ p[j].id # out[1].data.player_id
           /\ p[j].ready

\* C18: a toggle_ready that starts the game emits player_ready, with the
\* new flag and a room summary whose status is still waiting, and then
\* game_started, both to all open connections in the room, the toggling
\* one included.
C18_ReadyBeforeStarted ==
    [][\A sid \in DOMAIN players :
          LET r == players[sid].room_id IN
          (/\ handle_toggle_ready(sid)
           /\ EventsIn(out', "game_started") # {})
              => /\ Len(out') = 2
                 /\ out'[1].event = "player_ready"
                 /\ out'[1].data.player_id = sid
                 /\ out'[1].data.is_ready = heap'[players[sid].player].ready
                 /\ out'[1].data.room_info.id = r
                 /\ out'[1].data.room_info.status = "waiting"
                 /\ out'[2].event = "game_started"
                 /\ out'[1].to = HoldersOf(rooms, heap, r) \cap connected
                 /\ out'[2].to = out'[1].to
                 /\ sid \in out'[1].to]_vars

\* C19: whatever the room's status, playing included, a join_room to a
\* room of the store that has a free slot, with the room's password or to a
\* room without one, succeeds: it appends a not-ready player with the
\* caller's id, binds the caller to the room and to that player, and leaves
\* the room's status and game_state as they were.
C19_JoinIgnoresStatus ==
    [][\A sid \in Conns, r \in DOMAIN rooms, pw \in Passwords :
          (/\ handle_join_room(sid, r, PlayerNameOf(sid), pw)
           /\ rooms[r].status \in {"waiting", "playing"}
           /\ Len(rooms[r].players) < rooms[r].max_players
           /\ rooms[r].password = None \/ pw = rooms[r].password)
              => /\ EventsIn(out', "player_joined") # {}
                 /\ EventsIn(out', "error") = {}
                 /\ r \in DOMAIN rooms'
                 /\ Len(rooms'[r].players) = Len(rooms[r].players) + 1
                 /\ SubSeq(PlayersOf(rooms', heap', r), 1,
                           Len(rooms[r].players))
                        = PlayersOf(rooms, heap, r)
                 /\ LET p == heap'[rooms'[r].players[Len(rooms'[r].players)]]
                    IN p.id = sid /\ ~p.ready
                 /\ sid \in DOMAIN players'
                 /\ players'[sid].room_id = r
                 /\ players'[sid].player
                        = rooms'[r].players[Len(rooms'[r].players)]
                 /\ rooms'[r].status = rooms[r].status
                 /\ rooms'[r].game_state = rooms[r].game_state]_vars

\* C19 witness: a connection has just joined a room whose game is running;
\* it is bound to the room, not ready, and the game_state is in place.
C19_Witness ==
    /\ Len(out) = 2
    /\ out[1].event = "player_joined"
    /\ out[1].data.room_info.status = "playing"
    /\ ~out[1].data.player.ready
    /\ out[1].data.player.id \in DOMAIN players
    /\ players[out[1].data.player.id].room_id = out[1].data.room_info.id
    /\ rooms[out[1].data.room_info.id].status = "playing"
    /\ rooms[out[1].data.room_info.id].game_state # NoGameState

\* Room r is waiting although it holds at least two players, all ready.
ReadyButWaiting(rs, h, r) ==
    rs[r].status = "waiting" /\ EveryoneReady(rs, h, r)

\* C20 (as claimed): after every event, no waiting room holds two or more
\* players who are all ready.  Stated for the rooms the claim has in mind:
\* one record per connection, every connection open.
C20_NoWaitingRoomAllReady ==
    \A r \in DOMAIN rooms :
        (/\ Cardinality(HoldersOf(rooms, heap, r)) = Len(rooms[r].players)
         /\ HoldersOf(rooms, heap, r) \subseteq connected)
            => ~ReadyButWaiting(rooms, heap, r)

\* C20 (amended): a toggle_ready of a bound connection never leaves its
\* room waiting with two or more players all ready, and a room comes to be
\* waiting with two or more players all ready only by a leave_room of a
\* connection bound to it, which removes the last player who is not ready
\* and does not look at readiness.
C20_OnlyLeaveKeepsReadyRoomWaiting ==
    [][/\ \A sid \in DOMAIN players :
              handle_toggle_ready(sid)
                  => ~ReadyButWaiting(rooms', heap', players[sid].room_id)
       /\ \A r \in DOMAIN rooms' :
              (/\ ReadyButWaiting(rooms', heap', r)
               /\ ~(r \in DOMAIN rooms /\ ReadyButWaiting(rooms, heap, r)))
                  => \E sid \in DOMAIN players :
                         /\ players[sid].room_id = r
                         /\ handle_leave_room(sid)
                         /\ \E i \in 1..Len(rooms[r].players) :
                                /\ heap[rooms[r].players[i]].id = sid
                                /\ ~heap[rooms[r].players[i]].ready]_vars

\* C20 witness: a connection has just left a waiting room, and the two
\* connections that stay in it, both open, are both ready.
C20_Witness ==
    /\ Len(out) = 1
    /\ out[1].event = "player_left"
    /\ out[1].data.room_info.id \in DOMAIN rooms
    /\ LET r == out[1].data.room_info.id IN
       /\ ReadyButWaiting(rooms, heap, r)
       /\ Cardinality(HoldersOf(rooms, heap, r)) = 2
       /\ HoldersOf(rooms, heap, r) \subseteq connected
       /\ out[1].data.player_id \notin HoldersOf(rooms, heap, r)

====
